---- MODULE Spec2Model ----
(***************************************************************************)
(* Model of generate_dashboard.py: the coin-flip options job.  One process *)
(* invocation runs update_trades() and then generate_plot(df).  The state  *)
(* is the persisted ledger file data/trades.csv, the calendar, and the     *)
(* local variables of the running invocation.                              *)
(*                                                                         *)
(* Units.  Option prices (entry, exit, pnl) are integers in thousandths of *)
(* a dollar, so that round(x, 2) is a real rounding to a multiple of 10.   *)
(* Strikes and the SPY price are whole dollars.  A calendar date is a day  *)
(* number; day 0 is a Friday.  str(date) is an injective rendering that    *)
(* read_csv hands back as the same string, so the day number stands for    *)
(* the text as well.                                                       *)
(*                                                                         *)
(* A numeric cell carries its pandas/Python type: f = TRUE is a float      *)
(* (written "0.0"), f = FALSE an int (written "0"); none = TRUE is None.   *)
(***************************************************************************)
EXTENDS Integers, Sequences, FiniteSets, TLC

\* ---- bounds of the model ------------------------------------------------
MaxDay == 2
MaxRows == 2
MaxResp == 2
MaxTrades == 2
MaxContracts == 3

\* ---- values -------------------------------------------------------------
None == [none |-> TRUE, v |-> 0, f |-> FALSE]
IntCell(n) == [none |-> FALSE, v |-> n, f |-> FALSE]
FloatCell(n) == [none |-> FALSE, v |-> n, f |-> TRUE]

Sides == {"call", "put"}
SpyPrices == {450, 452}
OptionPrices == {1234, 1255}

MkContract(sym, k, und, exp) ==
  [symbol |-> sym, strike_price |-> k, underlying_symbol |-> und,
   expiration_date |-> exp]

\* What the contract universe may answer in a run of the whole job, for the
\* expiration date asked for.
Listing(d) == { MkContract("SPY_448", 448, "SPY", d),
                MkContract("SPY_452", 452, "SPY", d),
                MkContract("QQQ_452", 452, "QQQ", d) }

\* The richer universe the selector is exercised on: equal strikes under
\* different symbols, an at-the-money strike, and far strikes.
SelectorListing == { MkContract("SPY_448A", 448, "SPY", 0),
                     MkContract("SPY_448B", 448, "SPY", 0),
                     MkContract("SPY_450", 450, "SPY", 0),
                     MkContract("SPY_452A", 452, "SPY", 0),
                     MkContract("SPY_452B", 452, "SPY", 0),
                     MkContract("SPY_460", 460, "SPY", 0) }

SeqsUpTo(S, n) == UNION { [1..k -> S] : k \in 0..n }

NoContract == MkContract("", 0, "", -1)
NoTrade ==
  [date |-> -1, side |-> "", symbol |-> "", strike |-> None, expiry |-> -1,
   entry_price |-> None, exit_price |-> None, pnl |-> None]

NumericColumns == {"strike", "entry_price", "exit_price", "pnl"}

VARIABLES
  today,          \* datetime.date.today()
  csv_exists,     \* data/trades.csv is present
  csv_rows,       \* its rows, as written by to_csv
  pc,             \* position of the invocation
  df,             \* update_trades: the data frame
  loaded,         \* the data frame as read at the start of the run
  side,           \* simulate_trade: the coin
  spy_price,      \* simulate_trade: get_spy_price()
  contracts,      \* simulate_trade: get_option_contracts(...)
  otm_contracts,  \* simulate_trade: the filtered and sorted list
  contract,       \* simulate_trade: otm_contracts[0]
  trades,         \* simulate_trade / close_trade: the provider's answer
  trade,          \* the trade dict
  called,         \* the provider interfaces this run has called
  wrote,          \* to_csv called made by this run
  log,            \* the [WARN] lines and the weekend notice of this run
  cumulative_pnl, \* generate_plot: df["cumulative_pnl"]
  html            \* docs/index.html written by this run

vars == <<today, csv_exists, csv_rows, pc, df, loaded, side, spy_price,
          contracts, otm_contracts, contract, trades, trade, called, wrote,
          log, cumulative_pnl, html>>

\* ---- calendar -----------------------------------------------------------
\* date.weekday(): Monday is 0, Sunday is 6.
Weekday(d) == (d + 4) % 7

\* Fault: the guard lets Saturday through.
IsWeekendSundayOnly(d) == Weekday(d) > 5

IsWeekend(d) == Weekday(d) >= 5

\* ---- selector (simulate_trade, lines 97-128) ----------------------------
\* Fault: an at-the-money strike passes the filter.
IsOTMInclusive(s, strike, price) ==
  (s = "call" /\ strike >= price) \/ (s = "put" /\ strike <= price)

IsOTM(s, strike, price) ==
  (s = "call" /\ strike > price) \/ (s = "put" /\ strike < price)

\* The loop over contracts: keeps the OTM ones, in the order met.
\* strike_price is a float of the provider's contract type, so the comparison
\* cannot raise and the except branch of the loop (skip the contract) is idle.
RECURSIVE OtmFilter(_, _, _)
OtmFilter(cs, s, price) ==
  IF cs = <<>> THEN <<>>
  ELSE LET rest == OtmFilter(Tail(cs), s, price)
       IN IF IsOTM(s, Head(cs).strike_price, price)
          THEN <<Head(cs)>> \o rest
          ELSE rest

\* key=lambda c: abs(c.strike_price - spy_price)
Distance(c, price) ==
  IF c.strike_price >= price THEN c.strike_price - price
                             ELSE price - c.strike_price

\* Fault: an unstable sort, equal keys end up in reverse order.
InsertByDistanceBeforeTies(sorted, c, price) ==
  LET k == Cardinality({ i \in 1..Len(sorted) :
                           Distance(sorted[i], price) < Distance(c, price) })
  IN SubSeq(sorted, 1, k) \o <<c>> \o SubSeq(sorted, k + 1, Len(sorted))

\* list.sort is stable: an element goes after every element whose key is
\* not larger than its own.
InsertByDistance(sorted, c, price) ==
  LET k == Cardinality({ i \in 1..Len(sorted) :
                           Distance(sorted[i], price) <= Distance(c, price) })
  IN SubSeq(sorted, 1, k) \o <<c>> \o SubSeq(sorted, k + 1, Len(sorted))

RECURSIVE SortByDistance(_, _)
SortByDistance(cs, price) ==
  IF cs = <<>> THEN <<>>
  ELSE InsertByDistance(SortByDistance(SubSeq(cs, 1, Len(cs) - 1), price),
                        cs[Len(cs)], price)

\* ---- pricer (lines 132-143 and 159-169) ---------------------------------
\* A provider answer is [raised, trades]; the price is that of the last
\* print, the int 0 when there is none or the call raised.
Raised == [raised |-> TRUE, items |-> <<>>]
Answer(xs) == [raised |-> FALSE, items |-> xs]

\* Fault: the oldest print is taken instead of the latest.
LastPriceTakesFirst(r) ==
  IF r.raised THEN IntCell(0)
  ELSE IF r.items # <<>> THEN FloatCell(r.items[1])
  ELSE IntCell(0)

LastPrice(r) ==
  IF r.raised THEN IntCell(0)
  ELSE IF r.items # <<>> THEN FloatCell(r.items[Len(r.items)])
  ELSE IntCell(0)

\* round(x, 2) of a value in thousandths: the nearest multiple of 10.  A
\* decimal tie (x ends in 5) is decided by the binary value of the float,
\* which can fall either way.
Round2(x) ==
  LET q == x \div 10
      r == x % 10
  IN IF r < 5 THEN {10 * q}
     ELSE IF r > 5 THEN {10 * (q + 1)}
     ELSE {10 * q, 10 * (q + 1)}

\* round(close_price - entry_price, 2): an int when both operands are ints.
PnlCells(close, entry) ==
  { [none |-> FALSE, v |-> x, f |-> close.f \/ entry.f] :
      x \in Round2(close.v - entry.v) }

\* ---- ledger (lines 178-181 and 193-194) ---------------------------------
\* A column that holds a float anywhere is a float64 column: read_csv
\* infers it from the text, pd.concat from the two frames.
Promote(rows) ==
  [ i \in 1..Len(rows) |->
      [ c \in DOMAIN rows[i] |->
          IF c \in NumericColumns /\ (\E j \in 1..Len(rows) : rows[j][c].f)
          THEN [rows[i][c] EXCEPT !.f = TRUE]
          ELSE rows[i][c] ] ]

ReadCsv(rows) == Promote(rows)

\* Fault: the new row replaces the frame instead of extending it.
ConcatOverwrites(frame, row) == <<row>>

\* pd.concat([df, pd.DataFrame([trade])], ignore_index=True)
Concat(frame, row) == Promote(Append(frame, row))

\* to_csv writes every cell as its column's dtype prints it.
ToCsv(frame) == frame

\* Fault: FileNotFoundError is not caught.
ReadLedgerNoCatch(exists, rows, readable) ==
  IF ~exists \/ ~readable THEN [raised |-> TRUE, frame |-> <<>>]
  ELSE [raised |-> FALSE, frame |-> ReadCsv(rows)]

\* try: pd.read_csv ... except FileNotFoundError: pd.DataFrame().  Any other
\* storage error propagates.
ReadLedger(exists, rows, readable) ==
  IF ~exists THEN [raised |-> FALSE, frame |-> <<>>]
  ELSE IF ~readable THEN [raised |-> TRUE, frame |-> <<>>]
  ELSE [raised |-> FALSE, frame |-> ReadCsv(rows)]

Columns(frame) == IF frame = <<>> THEN {} ELSE DOMAIN frame[1]

\* Fault: the column is copied without accumulating.
CumSumNoCarry(cells) == cells

\* df["pnl"].cumsum(): the running total, row by row.
RECURSIVE CumSum(_)
CumSum(cells) ==
  IF cells = <<>> THEN <<>>
  ELSE LET front == CumSum(SubSeq(cells, 1, Len(cells) - 1))
           x == cells[Len(cells)]
       IN IF front = <<>> THEN <<x>>
          ELSE Append(front, [x EXCEPT !.v = front[Len(front)].v + x.v])

PnlColumn(frame) == [ i \in 1..Len(frame) |-> frame[i].pnl ]

\* ---- provider answers ----------------------------------------------------
PriceAnswers == {None} \cup { FloatCell(p) : p \in SpyPrices }

ContractAnswers(d) ==
  {Raised} \cup { Answer(cs) : cs \in SeqsUpTo(Listing(d), MaxResp) }

TradeAnswers ==
  {Raised} \cup { Answer(ps) : ps \in SeqsUpTo(OptionPrices, MaxTrades) }

\* [c for c in contracts if c.underlying_symbol == symbol]
RECURSIVE OfUnderlying(_, _)
OfUnderlying(cs, symbol) ==
  IF cs = <<>> THEN <<>>
  ELSE IF Head(cs).underlying_symbol = symbol
       THEN <<Head(cs)>> \o OfUnderlying(Tail(cs), symbol)
       ELSE OfUnderlying(Tail(cs), symbol)

\* get_option_contracts: the first request, the list-format retry when it
\* raises, [] when the retry raises too.
GetOptionContracts(first, retry, symbol) ==
  IF ~first.raised THEN OfUnderlying(first.items, symbol)
  ELSE IF ~retry.raised THEN OfUnderlying(retry.items, symbol)
  ELSE <<>>

Stopped == pc \in {"idle", "exit", "raised"}

\* ---- the state machine ---------------------------------------------------
Init ==
  /\ today = 0
  /\ csv_exists = FALSE
  /\ csv_rows = <<>>
  /\ pc = "idle"
  /\ df = <<>>
  /\ loaded = <<>>
  /\ side = ""
  /\ spy_price = None
  /\ contracts = <<>>
  /\ otm_contracts = <<>>
  /\ contract = NoContract
  /\ trades = Answer(<<>>)
  /\ trade = NoTrade
  /\ called = {}
  /\ wrote = 0
  /\ log = {}
  /\ cumulative_pnl = <<>>
  /\ html = FALSE

\* The calendar moves on between invocations of the job: an invocation is a
\* few network calls long, and both reads of date.today() see the same day.
Tick ==
  /\ Stopped
  /\ today < MaxDay
  /\ today' = today + 1
  /\ UNCHANGED <<csv_exists, csv_rows, pc, df, loaded, side, spy_price,
                 contracts, otm_contracts, contract, trades, trade, called,
                 wrote, log, cumulative_pnl, html>>

\* A new invocation: update_trades reads the ledger (lines 177-181).
Start ==
  /\ Stopped
  /\ Len(csv_rows) < MaxRows
  /\ \E readable \in BOOLEAN :
       LET r == ReadLedger(csv_exists, csv_rows, readable)
       IN /\ df' = r.frame
          /\ loaded' = r.frame
          /\ pc' = IF r.raised THEN "raised" ELSE "loaded"
  /\ side' = ""
  /\ spy_price' = None
  /\ contracts' = <<>>
  /\ otm_contracts' = <<>>
  /\ contract' = NoContract
  /\ trades' = Answer(<<>>)
  /\ trade' = NoTrade
  /\ called' = {}
  /\ wrote' = 0
  /\ log' = {}
  /\ cumulative_pnl' = <<>>
  /\ html' = FALSE
  /\ UNCHANGED <<today, csv_exists, csv_rows>>

\* if datetime.date.today().weekday() >= 5: return df (lines 183-185).
WeekendGuard ==
  /\ pc = "loaded"
  /\ IF IsWeekend(today)
     THEN /\ log' = log \cup {"weekend"}
          /\ pc' = "returned"
     ELSE /\ log' = log
          /\ pc' = "simulate"
  /\ UNCHANGED <<today, csv_exists, csv_rows, df, loaded, side, spy_price,
                 contracts, otm_contracts, contract, trades, trade, called,
                 wrote, cumulative_pnl, html>>

\* simulate_trade, lines 84-90: the coin and the SPY price.
FlipAndPrice ==
  /\ pc = "simulate"
  /\ \E s \in Sides, p \in PriceAnswers :
       /\ side' = s
       /\ spy_price' = p
       /\ pc' = IF p = None THEN "simulated" ELSE "contracts"
  /\ called' = called \cup {"price"}
  /\ UNCHANGED <<today, csv_exists, csv_rows, df, loaded, contracts,
                 otm_contracts, contract, trades, trade, wrote, log,
                 cumulative_pnl, html>>

\* simulate_trade, lines 92-95.
FetchContracts ==
  /\ pc = "contracts"
  /\ \E first \in ContractAnswers(today) :
       \E retry \in IF first.raised THEN ContractAnswers(today) ELSE {Raised} :
         contracts' = GetOptionContracts(first, retry, "SPY")
  /\ called' = called \cup {"contracts"}
  /\ IF contracts' = <<>>
     THEN /\ log' = log \cup {"no_contracts"}
          /\ pc' = "simulated"
     ELSE /\ log' = log
          /\ pc' = "select"
  /\ UNCHANGED <<today, csv_exists, csv_rows, df, loaded, side, spy_price,
                 otm_contracts, contract, trades, trade, wrote,
                 cumulative_pnl, html>>

\* simulate_trade, lines 97-130: filter, sort, take the first.
SelectContract ==
  /\ pc = "select"
  /\ LET otm == OtmFilter(contracts, side, spy_price.v)
     IN IF otm = <<>>
        THEN /\ log' = log \cup {"no_otm"}
             /\ pc' = "simulated"
             /\ contracts' = <<>>
             /\ UNCHANGED <<otm_contracts, contract>>
        ELSE /\ otm_contracts' = SortByDistance(otm, spy_price.v)
             /\ contract' = otm_contracts'[1]
             /\ pc' = "entry"
             /\ UNCHANGED <<log, contracts>>
  /\ UNCHANGED <<today, csv_exists, csv_rows, df, loaded, side, spy_price,
                 trades, trade, called, wrote, cumulative_pnl, html>>

\* simulate_trade, lines 132-156: the entry price and the open trade.
FetchEntry ==
  /\ pc = "entry"
  /\ \E r \in TradeAnswers :
       /\ trades' = r
       /\ trade' = [date |-> today,
                    side |-> side,
                    symbol |-> contract.symbol,
                    strike |-> FloatCell(contract.strike_price),
                    expiry |-> contract.expiration_date,
                    entry_price |-> LastPrice(r),
                    exit_price |-> None,
                    pnl |-> None]
  /\ called' = called \cup {"trades"}
  /\ contracts' = <<>>
  /\ otm_contracts' = <<>>
  /\ contract' = NoContract
  /\ pc' = "simulated"
  /\ UNCHANGED <<today, csv_exists, csv_rows, df, loaded, side, spy_price,
                 wrote, log, cumulative_pnl, html>>

\* Fault: the result of simulate_trade is not tested.
TradeGuardAlwaysCloses ==
  /\ pc = "simulated"
  /\ log' = log
  /\ pc' = "close"
  /\ UNCHANGED <<today, csv_exists, csv_rows, df, loaded, side, spy_price,
                 contracts, otm_contracts, contract, trades, trade, called,
                 wrote, cumulative_pnl, html>>

\* Fault: the trade is appended without being closed.
TradeGuardSkipsClose ==
  /\ pc = "simulated"
  /\ IF trade = NoTrade
     THEN /\ log' = log \cup {"sim_failed"}
          /\ pc' = "returned"
     ELSE /\ log' = log
          /\ pc' = "closed"
  /\ UNCHANGED <<today, csv_exists, csv_rows, df, loaded, side, spy_price,
                 contracts, otm_contracts, contract, trades, trade, called,
                 wrote, cumulative_pnl, html>>

\* update_trades, lines 187-190: if not trade: return df.
TradeGuard ==
  /\ pc = "simulated"
  /\ IF trade = NoTrade
     THEN /\ log' = log \cup {"sim_failed"}
          /\ pc' = "returned"
     ELSE /\ log' = log
          /\ pc' = "close"
  /\ UNCHANGED <<today, csv_exists, csv_rows, df, loaded, side, spy_price,
                 contracts, otm_contracts, contract, trades, trade, called,
                 wrote, cumulative_pnl, html>>

\* close_trade, lines 158-174.
CloseTrade ==
  /\ pc = "close"
  /\ \E r \in TradeAnswers :
       /\ trades' = r
       /\ \E p \in PnlCells(LastPrice(r), trade.entry_price) :
            trade' = [trade EXCEPT !.exit_price = LastPrice(r), !.pnl = p]
  /\ called' = called \cup {"trades"}
  /\ pc' = "closed"
  /\ UNCHANGED <<today, csv_exists, csv_rows, df, loaded, side, spy_price,
                 contracts, otm_contracts, contract, wrote, log,
                 cumulative_pnl, html>>

\* update_trades, lines 192-195: append the closed trade, rewrite the file.
AppendAndSave ==
  /\ pc = "closed"
  /\ df' = Concat(df, trade)
  /\ csv_rows' = ToCsv(df')
  /\ csv_exists' = TRUE
  /\ wrote' = wrote + 1
  /\ trades' = Answer(<<>>)
  /\ pc' = "returned"
  /\ UNCHANGED <<today, loaded, side, spy_price, contracts, otm_contracts,
                 contract, trade, called, log, cumulative_pnl, html>>

\* generate_plot(df), lines 197-222.
GeneratePlot ==
  /\ pc = "returned"
  /\ IF df = <<>> \/ "pnl" \notin Columns(df)
     THEN /\ log' = log \cup {"no_plot"}
          /\ UNCHANGED <<cumulative_pnl, html>>
     ELSE /\ cumulative_pnl' = CumSum(PnlColumn(df))
          /\ html' = TRUE
          /\ log' = log
  /\ pc' = "exit"
  /\ UNCHANGED <<today, csv_exists, csv_rows, df, loaded, side, spy_price,
                 contracts, otm_contracts, contract, trades, trade, called,
                 wrote>>

Next ==
  \/ Tick
  \/ Start
  \/ WeekendGuard
  \/ FlipAndPrice
  \/ FetchContracts
  \/ SelectContract
  \/ FetchEntry
  \/ TradeGuard
  \/ CloseTrade
  \/ AppendAndSave
  \/ GeneratePlot

Spec == Init /\ [][Next]_vars

\* ---- the selector on its own ----------------------------------------------
\* simulate_trade stands at line 97 with a side, a price and a non-empty
\* contract list, drawn from the richer universe.
InitSelect ==
  /\ today = 0
  /\ csv_exists = FALSE
  /\ csv_rows = <<>>
  /\ pc = "select"
  /\ df = <<>>
  /\ loaded = <<>>
  /\ side \in Sides
  /\ spy_price \in { FloatCell(p) : p \in {450, 451} }
  /\ contracts \in SeqsUpTo(SelectorListing, MaxContracts) \ {<<>>}
  /\ otm_contracts = <<>>
  /\ contract = NoContract
  /\ trades = Answer(<<>>)
  /\ trade = NoTrade
  /\ called = {"price", "contracts"}
  /\ wrote = 0
  /\ log = {}
  /\ cumulative_pnl = <<>>
  /\ html = FALSE

NextSelect == SelectContract

SpecSelect == InitSelect /\ [][NextSelect]_vars

\* ---- helpers of the properties -------------------------------------------
Abs(x) == IF x >= 0 THEN x ELSE -x

\* A row without the dtype of its cells: the Trade it stands for.
TradeOf(row) ==
  [ c \in DOMAIN row |->
      IF c \in NumericColumns
      THEN [none |-> row[c].none, v |-> row[c].v]
      ELSE row[c] ]

TradesOf(rows) == [ i \in 1..Len(rows) |-> TradeOf(rows[i]) ]

LastRow == csv_rows[Len(csv_rows)]

RECURSIVE PnlSum(_, _)
PnlSum(frame, i) == IF i = 0 THEN 0 ELSE PnlSum(frame, i - 1) + frame[i].pnl.v

\* The indices of the contracts that are out of the money for the side.
OtmIndices ==
  { i \in 1..Len(contracts) :
      \/ side = "call" /\ contracts[i].strike_price > spy_price.v
      \/ side = "put" /\ contracts[i].strike_price < spy_price.v }

\* ---- C1 ------------------------------------------------------------------
\* C1: no two rows of the ledger carry the same date, whatever runs came
\* before (two successful runs on one weekday included).
C1_OneRowPerDate ==
  \A i, j \in 1..Len(csv_rows) :
    i # j => csv_rows[i].date # csv_rows[j].date

\* ---- C2 ------------------------------------------------------------------
\* C2: when some contract is out of the money, the contract selected is an
\* out-of-the-money one at minimal |strike - price|, and among those at the
\* minimal distance it is the earliest in the input order.
C2_NearestOtmFirstWins ==
  pc = "entry" =>
    \E i \in OtmIndices :
      /\ contract = contracts[i]
      /\ \A j \in OtmIndices :
           /\ Abs(contracts[j].strike_price - spy_price.v)
                >= Abs(contracts[i].strike_price - spy_price.v)
           /\ j < i =>
                Abs(contracts[j].strike_price - spy_price.v)
                  > Abs(contracts[i].strike_price - spy_price.v)

\* A tie at the minimal distance between two symbols, with a contract that
\* is not out of the money listed first.
C2_Witness ==
  /\ pc = "entry"
  /\ side = "call"
  /\ spy_price.v = 450
  /\ Len(contracts) = 3
  /\ contracts[1].symbol = "SPY_448A"
  /\ contracts[2].symbol = "SPY_452B"
  /\ contracts[3].symbol = "SPY_452A"
  /\ contract.symbol = "SPY_452B"

\* ---- C3 ------------------------------------------------------------------
\* C3: the row a run appends is strictly out of the money against the price
\* that run fetched: a call has strike > price, a put strike < price.
C3_AppendedRowIsOtm ==
  (pc = "returned" /\ wrote > 0) =>
    /\ spy_price # None
    /\ LastRow.side \in Sides
    /\ LastRow.side = "call" => LastRow.strike.v > spy_price.v
    /\ LastRow.side = "put" => LastRow.strike.v < spy_price.v

\* A put recorded at 448 while the price was 452, the strike of the other
\* listed contract.
C3_Witness ==
  /\ pc = "returned"
  /\ wrote > 0
  /\ spy_price.v = 452
  /\ LastRow.side = "put"
  /\ LastRow.strike.v = 448

\* ---- C4 ------------------------------------------------------------------
\* C4: a weekday run whose price fetch failed, whose contract list came back
\* empty, or that found no out-of-the-money contract creates no trade: it
\* returns the ledger it loaded, writes no file, and has not raised.
C4_FailedSimulationKeepsLedger ==
  /\ (/\ pc = "returned"
      /\ Weekday(today) \in 0..4
      /\ \/ "price" \in called /\ spy_price = None
         \/ "no_contracts" \in log
         \/ "no_otm" \in log)
     => /\ trade = NoTrade
        /\ df = loaded
        /\ wrote = 0
        /\ csv_rows = loaded
        /\ csv_exists = (loaded # <<>>)
  /\ pc = "raised" => called = {} /\ log = {}

\* A run that found no out-of-the-money contract, over a ledger of one row.
C4_Witness ==
  /\ pc = "returned"
  /\ Weekday(today) \in 0..4
  /\ "no_otm" \in log
  /\ Len(loaded) = 1

\* ---- C5 ------------------------------------------------------------------
\* C5: a run on a Saturday or a Sunday creates no trade, returns the ledger
\* it loaded, does not rewrite the file and calls no provider interface.
C5_WeekendRunIsANoOp ==
  (pc = "returned" /\ Weekday(today) \in {5, 6}) =>
    /\ trade = NoTrade
    /\ df = loaded
    /\ wrote = 0
    /\ csv_rows = loaded
    /\ csv_exists = (loaded # <<>>)
    /\ called = {}

\* A Sunday run over a ledger that already has a row.
C5_Witness ==
  /\ pc = "returned"
  /\ Weekday(today) = 6
  /\ "weekend" \in log
  /\ Len(loaded) = 1

\* ---- C6 ------------------------------------------------------------------
\* C6: once a contract is selected, a recent-trades answer that is empty or
\* raised prices the leg at exactly 0, otherwise at the last print; the pnl
\* is the rounded exit - entry against whatever was priced, and the row is
\* appended all the same.
C6_PriceOfAnswer ==
  IF trades.raised \/ trades.items = <<>> THEN 0
  ELSE trades.items[Len(trades.items)]

C6_DegradeNotAbort ==
  /\ (pc \in {"simulated", "close"} /\ trade # NoTrade) =>
       /\ ~trade.entry_price.none
       /\ trade.entry_price.v = C6_PriceOfAnswer
  /\ pc = "closed" =>
       /\ ~trade.exit_price.none
       /\ trade.exit_price.v = C6_PriceOfAnswer
       /\ ~trade.pnl.none
       /\ Abs(trade.pnl.v - (trade.exit_price.v - trade.entry_price.v)) <= 5
  /\ (pc = "returned" /\ trade # NoTrade) =>
       /\ wrote = 1
       /\ Len(csv_rows) = Len(loaded) + 1
       /\ TradeOf(LastRow) = TradeOf(trade)

\* A row appended with the entry leg unpriced and the exit leg priced.
C6_Witness ==
  /\ pc = "returned"
  /\ wrote = 1
  /\ LastRow.entry_price.v = 0
  /\ LastRow.exit_price.v = 1255
  /\ LastRow.pnl.v # 0

C8_AbsentFileIsEmptyLedger ==
  /\ csv_exists = (csv_rows # <<>>)
  /\ pc = "raised" => csv_exists
  /\ (pc = "returned" /\ loaded = <<>>) =>
       IF trade # NoTrade
       THEN /\ csv_exists
            /\ Len(csv_rows) = 1
            /\ df = csv_rows
       ELSE /\ df = <<>>
            /\ ~csv_exists

\* The first trade ever: the file did not exist and now holds one row.
C8_Witness ==
  /\ pc = "returned"
  /\ loaded = <<>>
  /\ trade # NoTrade
  /\ Len(csv_rows) = 1

\* ---- C9 ------------------------------------------------------------------
\* C9: every step leaves the trades of the persisted ledger as they were or
\* adds exactly one at the end, and a run writes the file at most once.
C9_AppendOnlyStep ==
  /\ \/ csv_rows' = csv_rows
     \/ TradesOf(csv_rows') = TradesOf(csv_rows)
     \/ /\ Len(csv_rows') = Len(csv_rows) + 1
        /\ SubSeq(TradesOf(csv_rows'), 1, Len(csv_rows)) = TradesOf(csv_rows)
  /\ wrote' <= 1

C9_AppendOnly == [][C9_AppendOnlyStep]_vars

\* A second row was appended, and the unpriced int 0 of the first row was
\* rewritten as the float 0.0 of its column.
C9_Witness ==
  /\ pc = "returned"
  /\ wrote = 1
  /\ Len(csv_rows) = 2
  /\ Len(loaded) = 1
  /\ ~loaded[1].entry_price.f
  /\ csv_rows[1].entry_price.f

\* ---- C10 -----------------------------------------------------------------
\* C10: a trade is open (exit_price and pnl None) when simulate_trade hands
\* it over and nothing is written while it is open; every row of the ledger
\* has exit_price and pnl set, pnl being exit - entry rounded to 2 decimals.
C10_OnlyClosedTradesPersisted ==
  /\ (pc \in {"simulated", "close"} /\ trade # NoTrade) =>
       /\ trade.exit_price = None
       /\ trade.pnl = None
       /\ wrote = 0
  /\ \A i \in 1..Len(csv_rows) :
       /\ ~csv_rows[i].entry_price.none
       /\ ~csv_rows[i].exit_price.none
       /\ ~csv_rows[i].pnl.none
       /\ csv_rows[i].pnl.v % 10 = 0
       /\ Abs(csv_rows[i].pnl.v
               - (csv_rows[i].exit_price.v - csv_rows[i].entry_price.v)) <= 5

\* A row whose exit - entry is 0.021 and whose pnl is 0.02.
C10_Witness ==
  /\ Len(csv_rows) >= 1
  /\ csv_rows[1].exit_price.v - csv_rows[1].entry_price.v = 21
  /\ csv_rows[1].pnl.v = 20

====
